---- MODULE Spec2Model ----
(***************************************************************************)
(* RESCAL alternating least squares (src/rescal.py): the driver `rescal`,  *)
(* its solvers __updateA / __updateR / __projectSlices, and the wrapper    *)
(* rescal_with_random_restarts.                                            *)
(*                                                                         *)
(* Abstraction.  A matrix is modelled by its shape <<rows, cols>>; the     *)
(* shape of every numpy expression is computed the way numpy computes it,  *)
(* so that a dimension mismatch is an error of the model as it is of the   *)
(* code.  A sparse 0/1 slice also carries its number of non-zero entries.  *)
(* The floating-point value of the objective f is a nondeterministic       *)
(* choice from FVals at every iteration; fit and fitchange are computed    *)
(* from it exactly (as rationals over sumNormX, with IEEE nan/-inf/inf     *)
(* when sumNormX is 0).  The factor matrix A and the core matrices R carry *)
(* a version stamp recording which call produced them and from what.       *)
(***************************************************************************)
EXTENDS Integers, Sequences, FiniteSets, TLC

\* ---------------------------------------------------------------- bounds
MaxN == 2          \* entity dimension N ranges over 1..MaxN
MaxK == 2          \* number of slices K ranges over 0..MaxK
MaxIter == 4       \* the maxIter option ranges over 0..MaxIter
MaxRestarts == 4   \* the restarts argument ranges over 0..MaxRestarts
NnzVals == {0, 1}  \* non-zero entries of a slice
FVals == {0, 1, 2} \* values of the objective f
TimeVals == {1}    \* toc - tic of one iteration

\* ------------------------------------------------------- module defaults
DEF_MAXITER == 500
DEF_INIT == "nvecs"
DEF_PROJ == TRUE
DEF_CONV == <<1, 100000>>   \* 1e-5 as numerator, denominator
DEF_LMBDA == 0

\* ------------------------------------------------------------ shapes
ErrShape == <<-1, -1>>
IsErr(s) == s = ErrShape
Min(a, b) == IF a <= b THEN a ELSE b
Max(a, b) == IF a >= b THEN a ELSE b

\* numpy.dot / sparse .dot of two 2-D operands
dot(a, b) ==
  IF IsErr(a) \/ IsErr(b) \/ a[2] # b[1] THEN ErrShape ELSE <<a[1], b[2]>>

\* .T / .transpose()
T(a) == IF IsErr(a) THEN ErrShape ELSE <<a[2], a[1]>>

\* a + b with numpy broadcasting
add(a, b) ==
  IF IsErr(a) \/ IsErr(b) THEN ErrShape
  ELSE IF /\ (a[1] = b[1] \/ a[1] = 1 \/ b[1] = 1)
          /\ (a[2] = b[2] \/ a[2] = 1 \/ b[2] = 1)
       THEN <<Max(a[1], b[1]), Max(a[2], b[2])>>
       ELSE ErrShape

\* a += b : the result must fit a
iadd(a, b) == IF add(a, b) = a THEN a ELSE ErrShape

kron(a, b) == IF IsErr(a) \/ IsErr(b) THEN ErrShape ELSE <<a[1] * b[1], a[2] * b[2]>>
eye(r) == <<r, r>>
zeros(r, c) == <<r, c>>

\* numpy.linalg.inv: square matrices only
inv(a) == IF IsErr(a) \/ a[1] # a[2] THEN ErrShape ELSE a
\* numpy.linalg.pinv: the shape of the transpose
pinv(a) == T(a)

\* numpy.linalg.qr (reduced): A (m x n) = Q (m x min) . R (min x n)
qr(a) == [Q |-> <<a[1], Min(a[1], a[2])>>, R |-> <<Min(a[1], a[2]), a[2]>>]

\* M.flatten(): the length of the vector (-1: error)
flatten(a) == IF IsErr(a) THEN -1 ELSE a[1] * a[2]
\* dot of a 1-D vector of length v with a matrix: a vector
vdot(v, m) == IF v < 0 \/ IsErr(m) \/ v # m[1] THEN -1 ELSE m[2]
\* v.reshape(r, c)
reshape(v, r, c) == IF v = r * c THEN <<r, c>> ELSE ErrShape

\* ------------------------------------------------------------ solvers
\* Sum of the diagonal of M.M^T; for a 0/1 matrix the number of its ones.
squareFrobeniusNormOfSparse(M) ==
  IF IsErr(dot(M.shape, T(M.shape))) THEN -1 ELSE M.nnz

RECURSIVE SumSeq(_)
SumSeq(s) == IF s = <<>> THEN 0 ELSE Head(s) + SumSeq(Tail(s))

\* One R_k of __updateR, from slice shape x and factor shape a.
UpdateRSliceMutNoTranspose(x, a, lmbda) ==
  IF lmbda = 0
  THEN LET ainv == dot(pinv(dot(T(a), a)), T(a)) IN dot(ainv, x)
  ELSE LET r == a[2]
           AtA == dot(T(a), a)
           tmp == inv(add(kron(AtA, AtA), eye(r * r)))
           AtXA == dot(T(a), dot(x, a))
       IN  reshape(vdot(flatten(AtXA), tmp), r, r)

UpdateRSlice(x, a, lmbda) ==
  IF lmbda = 0
  THEN LET ainv == dot(pinv(dot(T(a), a)), T(a))
       IN  dot(ainv, dot(x, T(ainv)))
  ELSE LET r == a[2]
           AtA == dot(T(a), a)
           tmp == inv(add(kron(AtA, AtA), eye(r * r)))
           AtXA == dot(T(a), dot(x, a))
       IN  reshape(vdot(flatten(AtXA), tmp), r, r)

\* __updateR: one matrix per element of X (X: a sequence of shapes).
updateR(X, a, lmbda) == [i \in 1..Len(X) |-> UpdateRSlice(X[i], a, lmbda)]

\* __projectSlices: X2[i] = Q^T . X[i] . Q
projectSlices(X, Q) == [i \in 1..Len(X) |-> dot(T(Q), dot(X[i], Q))]

\* The accumulation loop of __updateA over slices i..Len(X): <<F, E>>.
RECURSIVE AccumFE(_, _, _, _, _, _)
AccumFE(X, a, R, F, E, i) ==
  IF i > Len(X) THEN <<F, E>>
  ELSE LET AtA == dot(T(a), a)
           ar == dot(a, R[i])
           F2 == iadd(F, add(dot(X[i], dot(a, T(R[i]))), dot(T(X[i]), ar)))
           E2 == iadd(E, add(dot(R[i], dot(AtA, T(R[i]))),
                             dot(T(R[i]), dot(AtA, R[i]))))
       IN  AccumFE(X, a, R, F2, E2, i + 1)

\* __updateA: the shape of the new A.
updateA(X, a, R, lmbda) ==
  LET n == a[1]
      rank == a[2]
      FE == AccumFE(X, a, R, zeros(n, rank), zeros(rank, rank), 1)
  IN  dot(FE[1], inv(add(eye(rank), FE[2])))

\* The shapes the fit computation needs: ARAt and X[i].multiply(ARAt).
FitShapesOk(X, a, R) ==
  \A i \in 1..Len(X) :
    LET ARAt == dot(a, dot(R[i], T(a)))
    IN  ~IsErr(ARAt) /\ ARAt = X[i]

AnyErr(S) == \E i \in 1..Len(S) : IsErr(S[i])


\* ------------------------------------------------------ fit arithmetic
\* A float that is a rational num/den, or one of the IEEE specials.
Num(n, d) == [kind |-> "num", num |-> n, den |-> d]
Special(k) == [kind |-> k, num |-> 0, den |-> 1]
Abs(x) == IF x < 0 THEN -x ELSE x

\* fit = 1 - f / sumNormX   (line 162)
FitOf(f, sumNormX) ==
  IF sumNormX # 0 THEN Num(sumNormX - f, sumNormX)
  ELSE IF f = 0 THEN Special("nan")     \* 1 - 0/0
  ELSE Special("ninf")                  \* 1 - f/0

\* fitchange = abs(fitold - fit)   (line 163)
FitChange(fitold, fit) ==
  IF fitold.kind = "num" /\ fit.kind = "num"
  THEN Num(Abs(fitold.num * fit.den - fit.num * fitold.den), fitold.den * fit.den)
  ELSE IF fitold.kind = "nan" \/ fit.kind = "nan" THEN Special("nan")
  ELSE IF fitold.kind = fit.kind THEN Special("nan")   \* (-inf) - (-inf)
  ELSE Special("inf")

\* x < conv, conv = <<numerator, denominator>>; false for nan and inf
LessThan(x, conv) == x.kind = "num" /\ x.num * conv[2] < conv[1] * x.den

\* The stopping rule of line 169.
StopMutNoGrace(iter, fitchange, conv) == LessThan(fitchange, conv)
StopMutNever(iter, fitchange, conv) == FALSE
Converged(iter, fitchange, conv) == iter > 1 /\ LessThan(fitchange, conv)

\* numpy.argmin of a non-empty list, as a left-to-right scan: `best` is
\* replaced only by a strictly smaller element.  Indices are 1-based here.
RECURSIVE ArgminScanMutLast(_, _, _)
ArgminScanMutLast(s, i, best) ==
  IF i > Len(s) THEN best
  ELSE ArgminScanMutLast(s, i + 1, IF s[i] <= s[best] THEN i ELSE best)

RECURSIVE ArgminScan(_, _, _)
ArgminScan(s, i, best) ==
  IF i > Len(s) THEN best
  ELSE ArgminScan(s, i + 1, IF s[i] < s[best] THEN i ELSE best)

argminMutLast(s) == ArgminScanMutLast(s, 2, 1)
argmin(s) == ArgminScan(s, 2, 1)

\* ------------------------------------------------------------- kwargs
\* kwargs is a function from option names to values.
NoKw == [x \in {} |-> 0]
KnownKeys == {"init", "proj", "maxIter", "conv", "lmbda"}
\* kwargs.pop(key, default): the value
Pop(kw, key, default) == IF key \in DOMAIN kw THEN kw[key] ELSE default
\* what is left of kwargs after the five pops of lines 95-99
LeftAfterPopsMutAll(kw) == NoKw
LeftAfterPops(kw) == [x \in (DOMAIN kw) \ KnownKeys |-> kw[x]]


\* ------------------------------------------------------------- state
VARIABLES
  mode,   \* the entry point called: "rescal" or "restarts"
  cfg,    \* the arguments of the call: X, rank, kwargs, restarts
  fr,     \* the frame of the current (or last) call of rescal
  w       \* the frame of rescal_with_random_restarts

vars == <<mode, cfg, fr, w>>

NoA == [shape |-> ErrShape, ver |-> -1, fromR |-> -1]
NoR == [mats |-> <<>>, id |-> -1, fromA |-> -1, input |-> "none"]
NoRes == [A |-> NoA, R |-> NoR, f |-> 0, fOf |-> <<-1, -1>>, iter |-> -1,
          exectimes |-> <<>>]

\* The frame of rescal(X, rank, **kw) on entry.  Locals not yet assigned
\* hold placeholders; iterBound says whether the loop variable is bound.
NewFrame(kw) ==
  [pc |-> "opts", kw |-> kw, err |-> "",
   ainit |-> DEF_INIT, proj |-> DEF_PROJ, maxIter |-> DEF_MAXITER,
   conv |-> DEF_CONV, lmbda |-> DEF_LMBDA,
   n |-> 0, k |-> 0, normX |-> <<>>, sumNormX |-> 0,
   A |-> NoA, Q |-> ErrShape, A2 |-> ErrShape, X2 |-> <<>>, R |-> NoR,
   phase |-> "init",
   fit |-> Num(0, 1), fitold |-> Num(0, 1), fitchange |-> Num(0, 1),
   f |-> 0, fOf |-> <<-1, -1>>,
   iter |-> -1, iterBound |-> FALSE, exectimes |-> <<>>,
   nNorm |-> 0, nInit |-> 0, nProj |-> 0, nUpdR |-> 0, nUpdA |-> 0,
   res |-> NoRes]

NewWrapper(startPc) ==
  [pc |-> startPc, i |-> 0, calls |-> 0, models |-> <<>>, fits |-> <<>>,
   chosen |-> -1, result |-> NoRes, err |-> ""]

Raise(e) == [fr EXCEPT !.pc = "raised", !.err = e]

\* The shapes of the slices of X.
Shapes(X) == [i \in 1..Len(X) |-> X[i].shape]

\* ------------------------------------------------------------- inputs
Slices(n) == {[shape |-> <<n, n>>, nnz |-> c] : c \in NnzVals}
Tensors == UNION {[1..kk -> Slices(nn)] : kk \in 0..MaxK, nn \in 1..MaxN}
Ranks == 1..(MaxN + 1)

ConvVals == {<<2, 1>>}
InitOpts == {NoKw, "init" :> "random", "init" :> "bogus"}
ProjOpts == {NoKw, "proj" :> FALSE}
ConvOpts == {NoKw} \cup {"conv" :> c : c \in ConvVals}
LmbdaOpts == {NoKw, "lmbda" :> 1}
ExtraOpts == {NoKw, "verbose" :> TRUE}
IterOpts == {"maxIter" :> m : m \in 0..MaxIter}

\* Calls of rescal: maxIter is always given (the default of 500 iterations
\* is outside the bounds); every other option may be left to its default.
KwargsSet ==
  {a @@ b @@ c @@ d @@ e @@ g :
     a \in IterOpts, b \in InitOpts, c \in ProjOpts, d \in ConvOpts,
     e \in LmbdaOpts, g \in ExtraOpts}

\* Calls of the wrapper: a fixed small tensor, at most two iterations.
\* w.calls counts the calls of rescal the wrapper has made.
RestartKwargsSet ==
  {a @@ b @@ c @@ e @@ g :
     a \in {"maxIter" :> m : m \in 0..2},
     b \in {NoKw, "init" :> "random"},
     c \in ProjOpts, e \in LmbdaOpts, g \in ExtraOpts}
RestartTensor == <<[shape |-> <<MaxN, MaxN>>, nnz |-> 1]>>

InitRescal ==
  /\ mode = "rescal"
  /\ cfg \in [X : Tensors, rank : Ranks, kwargs : KwargsSet, restarts : {0}]
  /\ fr = NewFrame(cfg.kwargs)
  /\ w = NewWrapper("unused")

InitRestarts ==
  /\ mode = "restarts"
  /\ cfg \in [X : {RestartTensor}, rank : {1}, kwargs : RestartKwargsSet,
              restarts : 0..MaxRestarts]
  /\ fr = [NewFrame(cfg.kwargs) EXCEPT !.pc = "none"]
  /\ w = NewWrapper("loop")

Init == InitRescal \/ InitRestarts


\* ------------------------------------------------------ rescal, lines 94-138
\* Lines 95-102: pop the five options, reject what is left.
ParseOptions ==
  /\ fr.pc = "opts"
  /\ LET left == LeftAfterPops(fr.kw)
         popped == [fr EXCEPT !.ainit = Pop(fr.kw, "init", DEF_INIT),
                              !.proj = Pop(fr.kw, "proj", DEF_PROJ),
                              !.maxIter = Pop(fr.kw, "maxIter", DEF_MAXITER),
                              !.conv = Pop(fr.kw, "conv", DEF_CONV),
                              !.lmbda = Pop(fr.kw, "lmbda", DEF_LMBDA),
                              !.kw = left]
     IN  fr' = IF DOMAIN left # {}
               THEN [popped EXCEPT !.pc = "raised", !.err = "ValueError:kwargs"]
               ELSE [popped EXCEPT !.pc = "shape"]
  /\ UNCHANGED <<mode, cfg, w>>

\* Lines 104-107: sz = X[0].shape; n = sz[0]; k = len(X).
ReadShape ==
  /\ fr.pc = "shape"
  /\ fr' = IF Len(cfg.X) = 0
           THEN Raise("IndexError")
           ELSE [fr EXCEPT !.n = cfg.X[1].shape[1], !.k = Len(cfg.X),
                           !.pc = "norms"]
  /\ UNCHANGED <<mode, cfg, w>>

\* Lines 114-117: normX, sumNormX.
PrecomputeNorms ==
  /\ fr.pc = "norms"
  /\ LET normX == [i \in 1..Len(cfg.X) |-> squareFrobeniusNormOfSparse(cfg.X[i])]
     IN  fr' = [fr EXCEPT !.normX = normX, !.sumNormX = SumSeq(normX),
                          !.nNorm = fr.nNorm + Len(cfg.X), !.pc = "initA"]
  /\ UNCHANGED <<mode, cfg, w>>

\* Lines 120-130: the initial A.  eigsh needs 0 < k < n and may fail to
\* converge; an unknown option reaches `raise <string>`, a TypeError.
InitializeA ==
  /\ fr.pc = "initA"
  /\ \/ /\ fr.ainit = "random"
        /\ fr' = [fr EXCEPT !.A = [shape |-> <<fr.n, cfg.rank>>, ver |-> 0,
                                   fromR |-> -1],
                            !.nInit = fr.nInit + 1, !.pc = "initR"]
     \/ /\ fr.ainit = "nvecs"
        /\ cfg.rank < fr.n
        /\ fr' = [fr EXCEPT !.A = [shape |-> <<fr.n, cfg.rank>>, ver |-> 0,
                                   fromR |-> -1],
                            !.nInit = fr.nInit + 1, !.pc = "initR"]
     \/ /\ fr.ainit = "nvecs"
        /\ fr' = [Raise(IF cfg.rank < fr.n THEN "ArpackNoConvergence"
                        ELSE "ValueError:eigsh")
                  EXCEPT !.nInit = fr.nInit + 1]
     \/ /\ fr.ainit \notin {"random", "nvecs"}
        /\ fr' = Raise("TypeError:init")
  /\ UNCHANGED <<mode, cfg, w>>

\* Where control goes after A is available (lines 133 and 148).
AfterAMutSkipProj(proj) == "updateR"
AfterA(proj) == IF proj THEN "project" ELSE "updateR"

\* Line 133: if proj ... else ...
InitializeR ==
  /\ fr.pc = "initR"
  /\ fr' = [fr EXCEPT !.pc = AfterA(fr.proj)]
  /\ UNCHANGED <<mode, cfg, w>>

\* Lines 134-135 and 149-150: Q, A2 = qr(A); X2 = __projectSlices(X, Q).
Project ==
  /\ fr.pc = "project"
  /\ LET d == qr(fr.A.shape)
         X2 == projectSlices(Shapes(cfg.X), d.Q)
     IN  fr' = IF AnyErr(X2)
               THEN [Raise("ValueError:shape") EXCEPT !.nProj = fr.nProj + 1]
               ELSE [fr EXCEPT !.Q = d.Q, !.A2 = d.R, !.X2 = X2,
                               !.nProj = fr.nProj + 1, !.pc = "updateR"]
  /\ UNCHANGED <<mode, cfg, w>>

\* The arguments of __updateR at lines 136/138 and 151/153.
CoreInputMutFull(f) == [X |-> Shapes(cfg.X), A |-> f.A2, name |-> "full"]
CoreInput(f) ==
  IF f.proj THEN [X |-> f.X2, A |-> f.A2, name |-> "projected"]
  ELSE [X |-> Shapes(cfg.X), A |-> f.A.shape, name |-> "full"]

\* The state after R is assigned: the loop head, or the fit of the iteration.
AfterR(phase) == IF phase = "init" THEN "loop" ELSE "fit"

\* Lines 136/138 and 151/153: R = __updateR(...).  pinv (lmbda = 0) can
\* fail with LinAlgError; the regularised system is positive definite.
UpdateR ==
  /\ fr.pc = "updateR"
  /\ LET in == CoreInput(fr)
         mats == updateR(in.X, in.A, fr.lmbda)
     IN  \/ fr' = IF AnyErr(mats) \/ IsErr(in.A)
                  THEN [Raise("ValueError:shape") EXCEPT !.nUpdR = fr.nUpdR + 1]
                  ELSE [fr EXCEPT !.R = [mats |-> mats, id |-> fr.nUpdR,
                                         fromA |-> fr.A.ver, input |-> in.name],
                                  !.nUpdR = fr.nUpdR + 1,
                                  !.phase = "iter",
                                  !.pc = AfterR(fr.phase)]
         \/ /\ fr.lmbda = 0
            /\ fr' = [Raise("LinAlgError") EXCEPT !.nUpdR = fr.nUpdR + 1]
  /\ UNCHANGED <<mode, cfg, w>>


\* ----------------------------------------------------- rescal, lines 141-171
\* Line 144: the next value of `for iter in xrange(maxIter)`, if any;
\* lines 145-146: tic, fitold = fit.
LoopHead ==
  /\ fr.pc = "loop"
  /\ LET next == IF fr.iterBound THEN fr.iter + 1 ELSE 0
     IN  fr' = IF next < fr.maxIter
               THEN [fr EXCEPT !.iter = next, !.iterBound = TRUE,
                               !.fitold = fr.fit, !.pc = "updateA"]
               ELSE [fr EXCEPT !.pc = "return"]
  /\ UNCHANGED <<mode, cfg, w>>

\* Line 147: A = __updateA(X, A, R, lmbda).  inv fails with LinAlgError on
\* a singular lmbda*I + E, which only lmbda = 0 allows.
UpdateA ==
  /\ fr.pc = "updateA"
  /\ LET a == updateA(Shapes(cfg.X), fr.A.shape, fr.R.mats, fr.lmbda)
     IN  \/ fr' = IF IsErr(a)
                  THEN [Raise("ValueError:shape") EXCEPT !.nUpdA = fr.nUpdA + 1]
                  ELSE [fr EXCEPT !.A = [shape |-> a, ver |-> fr.A.ver + 1,
                                         fromR |-> fr.R.id],
                                  !.nUpdA = fr.nUpdA + 1,
                                  !.pc = AfterA(fr.proj)]
         \/ /\ fr.lmbda = 0
            /\ fr' = [Raise("LinAlgError") EXCEPT !.nUpdA = fr.nUpdA + 1]
  /\ UNCHANGED <<mode, cfg, w>>

\* Lines 156-168: f, fit, fitchange, and the timing of the iteration.
ComputeFit ==
  /\ fr.pc = "fit"
  /\ \/ /\ ~FitShapesOk(Shapes(cfg.X), fr.A.shape, fr.R.mats)
        /\ fr' = Raise("ValueError:shape")
     \/ /\ FitShapesOk(Shapes(cfg.X), fr.A.shape, fr.R.mats)
        /\ \E f \in FVals, d \in TimeVals :
             LET fit == FitOf(f, fr.sumNormX)
             IN  fr' = [fr EXCEPT !.f = f, !.fOf = <<fr.A.ver, fr.R.id>>,
                                  !.fit = fit,
                                  !.fitchange = FitChange(fr.fitold, fit),
                                  !.exectimes = Append(fr.exectimes, d),
                                  !.pc = "check"]
  /\ UNCHANGED <<mode, cfg, w>>

\* Lines 169-170: if iter > 1 and fitchange < conv: break
CheckConvergence ==
  /\ fr.pc = "check"
  /\ fr' = [fr EXCEPT !.pc = IF Converged(fr.iter, fr.fitchange, fr.conv)
                               THEN "return" ELSE "loop"]
  /\ UNCHANGED <<mode, cfg, w>>

\* The fourth element of the returned tuple (line 171).
ReturnedIterMutIndex(iter) == iter
ReturnedIter(iter) == iter + 1

\* Line 171: return A, R, f, iter+1, array(exectimes).  `iter` is a local
\* of rescal: when the loop body never ran it is unbound.
Return ==
  /\ fr.pc = "return"
  /\ fr' = IF ~fr.iterBound
           THEN Raise("UnboundLocalError")
           ELSE [fr EXCEPT !.pc = "returned",
                           !.res = [A |-> fr.A, R |-> fr.R, f |-> fr.f,
                                    fOf |-> fr.fOf,
                                    iter |-> ReturnedIter(fr.iter),
                                    exectimes |-> fr.exectimes]]
  /\ UNCHANGED <<mode, cfg, w>>

\* -------------------------------- rescal_with_random_restarts, lines 31-37
\* Line 33-34: the next restart calls rescal(X, rank, init='random',
\* **kwargs); a kwargs that names init itself is a TypeError of the call.
WCall ==
  /\ mode = "restarts" /\ w.pc = "loop" /\ w.i < cfg.restarts
  /\ IF "init" \in DOMAIN cfg.kwargs
     THEN /\ w' = [w EXCEPT !.pc = "raised", !.err = "TypeError:init twice"]
          /\ fr' = fr
     ELSE /\ w' = [w EXCEPT !.pc = "call", !.calls = w.calls + 1]
          /\ fr' = NewFrame(("init" :> "random") @@ cfg.kwargs)
  /\ UNCHANGED <<mode, cfg>>

\* Lines 35-36: models.append(res); fits.append(res[2]).
WCollect ==
  /\ mode = "restarts" /\ w.pc = "call" /\ fr.pc = "returned"
  /\ w' = [w EXCEPT !.models = Append(w.models, fr.res),
                    !.fits = Append(w.fits, fr.res.f),
                    !.i = w.i + 1, !.pc = "loop"]
  /\ UNCHANGED <<mode, cfg, fr>>

\* An exception of rescal is not caught: it ends the wrapper.
WPropagate ==
  /\ mode = "restarts" /\ w.pc = "call" /\ fr.pc = "raised"
  /\ w' = [w EXCEPT !.pc = "raised", !.err = fr.err]
  /\ UNCHANGED <<mode, cfg, fr>>

\* Line 37: return models[argmin(fits)]; argmin of an empty list raises.
WSelect ==
  /\ mode = "restarts" /\ w.pc = "loop" /\ w.i >= cfg.restarts
  /\ w' = IF w.fits = <<>>
          THEN [w EXCEPT !.pc = "raised", !.err = "ValueError:argmin"]
          ELSE [w EXCEPT !.pc = "returned", !.chosen = argmin(w.fits) - 1,
                         !.result = w.models[argmin(w.fits)]]
  /\ UNCHANGED <<mode, cfg, fr>>

Next ==
  \/ ParseOptions
  \/ ReadShape
  \/ PrecomputeNorms
  \/ InitializeA
  \/ InitializeR
  \/ Project
  \/ UpdateR
  \/ LoopHead
  \/ UpdateA
  \/ ComputeFit
  \/ CheckConvergence
  \/ Return
  \/ WCall
  \/ WCollect
  \/ WPropagate
  \/ WSelect

Spec == Init /\ [][Next]_vars


\* ================================================================ claims
\* The keyword arguments the current call of rescal received.
CallKw == IF mode = "rescal" THEN cfg.kwargs
          ELSE ("init" :> "random") @@ cfg.kwargs
Called == fr.pc # "none"
NoWorkDone ==
  /\ fr.nNorm = 0 /\ fr.nInit = 0 /\ fr.nProj = 0
  /\ fr.nUpdR = 0 /\ fr.nUpdA = 0
  /\ fr.res = NoRes

\* C1: a call of rescal with an option key outside {init, proj, maxIter,
\* conv, lmbda} fails with the unknown-keyword error before any computation:
\* no norm, initialization, projection, Core Solver or Factor Solver call is
\* made and nothing is returned.
HasUnknownKey ==
  \E key \in DOMAIN CallKw :
    key \notin {"init", "proj", "maxIter", "conv", "lmbda"}
C1_UnknownKeyRejected ==
  (Called /\ HasUnknownKey) =>
    /\ fr.pc \in {"opts", "raised"}
    /\ fr.pc = "raised" => fr.err = "ValueError:kwargs"
    /\ NoWorkDone
C1_Witness ==
  /\ Called /\ HasUnknownKey
  /\ fr.pc = "raised" /\ fr.err = "ValueError:kwargs"
  /\ Len(cfg.X) > 0

\* C2 (as claimed): a call of rescal with an init value other than "nvecs"
\* or "random" fails before any work begins: no slice norm is precomputed
\* and no initialization or solver step runs.
HasBadInit ==
  /\ "init" \in DOMAIN CallKw
  /\ CallKw["init"] \notin {"nvecs", "random"}
C2_BadInitFailsBeforeWork ==
  (Called /\ HasBadInit) => NoWorkDone

\* C3 (as claimed): a call of rescal with rank > N or with an empty slice
\* sequence reports an error at once: no norm precomputation, no
\* initialization and no solver call is made, and nothing is returned.
RankTooLarge == Len(cfg.X) > 0 /\ cfg.rank > cfg.X[1].shape[1]
C3_BadRankOrEmptyRejected ==
  (Called /\ (Len(cfg.X) = 0 \/ RankTooLarge)) => NoWorkDone

\* C4: the loop is left for convergence exactly at the first iteration index
\* i > 1 whose |fit_i - fit_(i-1)| is below conv: a loop that has ended at
\* an index below maxIter - 1 ended at such an iteration, never at index 0 or
\* 1; a loop that goes on after an iteration did not satisfy the condition
\* at it; and the previous fit of an iteration is the fit of the iteration
\* before it (0 before the first).
DeltaBelowConv ==
  /\ fr.fitchange = FitChange(fr.fitold, fr.fit)
  /\ fr.fitchange.kind = "num"
  /\ fr.fitchange.num * fr.conv[2] < fr.conv[1] * fr.fitchange.den
C4_StopsOnlyWhenConverged ==
  (fr.pc = "return" /\ fr.iterBound /\ fr.iter + 1 < fr.maxIter) =>
    (fr.iter > 1 /\ DeltaBelowConv)
C4_NeverContinuesPastConverged ==
  (fr.pc = "loop" /\ fr.iterBound) => ~(fr.iter > 1 /\ DeltaBelowConv)
C4_PreviousFit ==
  (fr.pc = "loop" /\ fr'.pc = "updateA") =>
    /\ fr'.fitold = fr.fit
    /\ ~fr.iterBound => fr.fit = Num(0, 1)
C5_LoopEndStep ==
  fr.pc = "return" =>
    /\ fr.nUpdA <= fr.maxIter
    /\ fr'.pc = "returned"
    /\ fr'.res.iter = fr.nUpdA
    /\ ~Converged(fr.iter, fr.fitchange, fr.conv) => fr'.res.iter = fr.maxIter
C5_LoopEndReturnsTuple == [][C5_LoopEndStep]_vars

\* C6: when rescal_with_random_restarts returns it has called rescal exactly
\* `restarts` times, each with init = "random", every call has completed,
\* and the result is that of the run with the smallest f, the one of lowest
\* index among equals.  Nothing is selected before all runs have completed.
C6_BestOfRestarts ==
  /\ (mode = "restarts" /\ Called /\ fr.pc # "opts") => fr.ainit = "random"
  /\ (w.chosen # -1 \/ w.result # NoRes) => w.pc = "returned"
  /\ w.pc = "returned" =>
       /\ w.calls = cfg.restarts
       /\ Len(w.models) = cfg.restarts /\ Len(w.fits) = cfg.restarts
       /\ \A j \in 1..Len(w.fits) : w.fits[j] = w.models[j].f
       /\ w.chosen \in 0..(cfg.restarts - 1)
       /\ w.result = w.models[w.chosen + 1]
       /\ \A j \in 1..Len(w.fits) : w.fits[w.chosen + 1] <= w.fits[j]
       /\ \A j \in 1..w.chosen : w.fits[j] > w.fits[w.chosen + 1]
C6_Witness ==
  /\ w.pc = "returned"
  /\ w.fits = <<1, 0, 2, 0>>
  /\ w.chosen = 1

\* C7 (as claimed): a failure of one restart does not abort the others and
\* the wrapper returns the best of the restarts that succeeded; it ends with
\* an error only if all restarts failed, that is, with no successful run
\* collected.
C7_FailureOnlyIfAllFail ==
  (mode = "restarts" /\ w.pc = "raised") => w.models = <<>>

\* C8: once A is initialized, and after every iteration, A is N x rank; once
\* R is computed, it holds K matrices, each rank x rank; so does a returned
\* result; and no step fails on a shape.
ShapesOk(A, R) ==
  /\ A.ver >= 0 => A.shape = <<cfg.X[1].shape[1], cfg.rank>>
  /\ R.id >= 0 =>
       /\ Len(R.mats) = Len(cfg.X)
       /\ \A i \in 1..Len(R.mats) : R.mats[i] = <<cfg.rank, cfg.rank>>
C8_ShapeInvariant ==
  /\ ShapesOk(fr.A, fr.R)
  /\ fr.pc = "returned" => (fr.res.A.ver >= 1 /\ ShapesOk(fr.res.A, fr.res.R))
  /\ fr.err # "ValueError:shape"
C8_Witness ==
  /\ fr.pc = "returned" /\ fr.res.iter = 3
  /\ ~fr.proj /\ fr.lmbda = 0 /\ fr.ainit = "nvecs"
  /\ Len(cfg.X) = 2 /\ cfg.rank < cfg.X[1].shape[1]

\* C9: the Initializer runs once; in iteration i (counted from 1) the Factor
\* Solver makes A number i from R number i - 1, then, only when proj is
\* set, the slices are projected, then the Core Solver makes R number i from
\* A number i (from the projected slices when proj is set), then f is
\* computed from that pair.  The returned R is the Core Solver output for
\* the returned A and the returned f is the objective of that pair.
Started == IF fr.iterBound THEN fr.iter + 1 ELSE 0
C9_Ordering ==
  /\ fr.nInit <= 1
  /\ fr.A.ver >= 0 => fr.nInit = 1
  /\ fr.A.ver >= 1 => fr.A.fromR = fr.A.ver - 1
  /\ fr.R.id >= 0 =>
       /\ fr.R.fromA = fr.R.id
       /\ fr.R.input = IF fr.proj THEN "projected" ELSE "full"
  /\ fr.nProj = IF ~fr.proj THEN 0
                ELSE IF fr.pc = "updateR" THEN fr.nUpdR + 1
                ELSE fr.nUpdR
  /\ fr.pc = "updateA" => (fr.nUpdA = Started - 1 /\ fr.nUpdR = Started)
  /\ fr.pc \in {"project", "updateR"} /\ fr.phase = "iter" =>
       (fr.nUpdA = Started /\ fr.nUpdR = Started /\ fr.A.ver = Started)
  /\ fr.pc \in {"fit", "check", "return", "returned"} =>
       (fr.nUpdA = Started /\ fr.nUpdR = Started + 1
        /\ fr.A.ver = Started /\ fr.R.id = Started)
  /\ fr.pc \in {"check", "returned"} => fr.fOf = <<fr.A.ver, fr.R.id>>
  /\ fr.pc = "returned" =>
       /\ fr.res.R.fromA = fr.res.A.ver
       /\ fr.res.fOf = <<fr.res.A.ver, fr.res.R.id>>
       /\ fr.res.A = fr.A /\ fr.res.R = fr.R /\ fr.res.f = fr.f
C9_Witness ==
  /\ fr.pc = "returned" /\ fr.proj /\ fr.res.iter = 2
  /\ fr.nProj = 3 /\ fr.nUpdR = 3 /\ fr.nUpdA = 2

\* C10: whenever rescal has returned, the returned iteration count is the
\* number of Factor Solver calls of the run and the length of the returned
\* timings; the timings are empty when a run starts and every step leaves
\* them alone or appends one entry.
C10_Returned ==
  /\ fr.pc = "opts" => fr.exectimes = <<>>
  /\ fr.pc = "returned" =>
       /\ fr.res.iter = fr.nUpdA
       /\ fr.res.iter = Len(fr.res.exectimes)
C10_AppendOnly ==
  \/ fr'.exectimes = fr.exectimes
  \/ /\ Len(fr'.exectimes) = Len(fr.exectimes) + 1
     /\ SubSeq(fr'.exectimes, 1, Len(fr.exectimes)) = fr.exectimes
  \/ fr'.pc = "opts" /\ fr'.exectimes = <<>>
C10_IterationCount == []C10_Returned /\ [][C10_AppendOnly]_vars
C10_Witness ==
  /\ mode = "restarts" /\ w.i = 1 /\ fr.pc = "returned"
  /\ fr.res.iter = 1 /\ Len(fr.res.exectimes) = 1

====
